---- MODULE Spec2Model ----
(***************************************************************************)
(* RAIForecastingInsights (rai_forecasting_insights.py): construction of   *)
(* the insights object -- input validation, derived state, cached          *)
(* predictions, time-series cohorts -- as a state machine.                 *)
(*                                                                         *)
(* Data representation                                                     *)
(*   str            a sequence of one-character strings                    *)
(*   column name    a TLA+ string; Chars gives its characters              *)
(*   cell value     [t, n, s]: Python type, ordering key, str() form       *)
(*   DataFrame      [columns : Seq(name), rows : Seq([name -> value])]     *)
(*   None           the string None where a str is expected, the list      *)
(*                  NoneList where a list is expected, a record with       *)
(*                  present/kind set accordingly where an object is        *)
(***************************************************************************)
EXTENDS Integers, Sequences, FiniteSets, TLC

\* Largest number of rows of an enumerated test table.
MaxRows == 2

None == "<None>"
NoneList == << "<None>" >>

ToSet(seq) == {seq[i] : i \in DOMAIN seq}

\* The elements of seq that are in the set keep, in their order.
FilterSeq(seq, keep) ==
    LET Kept(x) == x \in keep
    IN SelectSeq(seq, Kept)

----------------------------------------------------------------------------
(* Cell values and their string forms *)

Digits == << "0", "1", "2", "3", "4", "5", "6", "7", "8", "9" >>

IntValue(k) == [t |-> "int", n |-> k, s |-> << Digits[k + 1] >>]
StrValue(chars, key) == [t |-> "str", n |-> key, s |-> chars]

\* Python str(value): the printed form; the type of the value is not in it.
str(v) == v.s

\* Python float(value) of a number; a str that is no number literal raises.
CanFloat(v) == v.t \in {"int", "float"}
float(v) == [t |-> "float", n |-> v.n, s |-> v.s \o << ".", "0" >>]

\* The characters of the column names.
Chars ==
    [c \in {"date", "week", "store", "dept", "sales", "hour", "zone"} |->
        CASE c = "date"  -> << "d", "a", "t", "e" >>
          [] c = "week"  -> << "w", "e", "e", "k" >>
          [] c = "store" -> << "s", "t", "o", "r", "e" >>
          [] c = "dept"  -> << "d", "e", "p", "t" >>
          [] c = "sales" -> << "s", "a", "l", "e", "s" >>
          [] c = "hour"  -> << "h", "o", "u", "r" >>
          [] c = "zone"  -> << "z", "o", "n", "e" >>]

----------------------------------------------------------------------------
(* pandas.DataFrame *)

DataFrame(cols, rws) ==
    [columns |-> cols,
     rows |-> [i \in DOMAIN rws |-> [c \in ToSet(cols) |-> rws[i][c]]] \o << >>]

len(df) == Len(df.rows)

\* df.drop(columns=[col]) for a column that df has.
drop(df, col) == DataFrame(FilterSeq(df.columns, ToSet(df.columns) \ {col}), df.rows)

\* df.iloc[0:1]
iloc01(df) == DataFrame(df.columns, SubSeq(df.rows, 1, IF len(df) = 0 THEN 0 ELSE 1))

\* The cells of column col, in row order.
Column(df, col) == [i \in DOMAIN df.rows |-> df.rows[i][col]] \o << >>

\* Whether the cells of column col all have one Python type; comparing a str
\* with an int raises TypeError, so sorting, min and max need this.
Comparable(df, col) == \A i \in DOMAIN df.rows : df.rows[i][col].t = df.rows[1][col].t

\* select_dtypes(include='number'): a column of numbers only.
IsNumber(df, col) == \A i \in DOMAIN df.rows : df.rows[i][col].t \in {"int", "float"}

select_dtypes_number(df) == FilterSeq(df.columns, {c \in ToSet(df.columns) : IsNumber(df, c)})

RECURSIVE unique(_)
\* Series.unique(): the distinct cells in order of first appearance.
unique(cells) ==
    IF cells = << >> THEN << >>
    ELSE LET init == unique(SubSeq(cells, 1, Len(cells) - 1))
             last == cells[Len(cells)]
         IN IF last \in ToSet(init) THEN init ELSE Append(init, last)

\* Series.min() / Series.max() of comparable cells of a non-empty column.
min(cells) == cells[CHOOSE i \in DOMAIN cells : \A j \in DOMAIN cells : cells[i].n <= cells[j].n]
max(cells) == cells[CHOOSE i \in DOMAIN cells : \A j \in DOMAIN cells : cells[i].n >= cells[j].n]

----------------------------------------------------------------------------
(* Exceptions: exc is the Python class, msg the message text, nums and cols *)
(* the numbers and the column names formatted into it.                     *)

NoError == [exc |-> "none", msg |-> "", nums |-> << >>, cols |-> {}]

Raise(exc, msg, nums, cols) == [exc |-> exc, msg |-> msg, nums |-> nums, cols |-> cols]

UserConfigValidationException(msg, nums, cols) ==
    Raise("UserConfigValidationException", msg, nums, cols)

\* The messages of the UserConfigValidationExceptions, {0} and {1} standing for
\* the formatted arguments.
MsgSerializerWithoutModel ==
    "No valid model is specified but model serializer provided."
MsgNoSave ==
    "The serializer does not implement save()"
MsgNoLoad ==
    "The serializer does not implement load()"
MsgNotPicklable ==
    "The serializer should be serializable via pickle"
MsgEmpty ==
    "Either of the train/test are empty. Please provide non-empty dataframes for train and test sets."
MsgTooManyRows ==
    "The test data has {0} rows, but limit is set to {1} rows. Please resample the test data or adjust maximum_rows_for_test"
MsgFeaturesDoNotMatch ==
    "The features in train and test data do not match"
MsgTargetNotInTrain ==
    "Target name {0} not present in train data"
MsgTargetCategorical ==
    "Found target name {0} in categorical feature list"
MsgCategoricalNotInTrain ==
    "Feature names in categorical_features do not exist in train data: {0}"
MsgUniqueTrain ==
    "Error finding unique values in column {0}. Please check your train data."
MsgUniqueTest ==
    "Error finding unique values in column {0}. Please check your test data."
MsgStringFeatures ==
    "The following string features were not identified as categorical features: {0}"
MsgPredictModifies ==
    "Calling model {0} function modifies input dataset features. Please check if predict function is defined correctly."
MsgCannotPredict ==
    "The model passed cannot be used for getting predictions via predict()"
MsgNotFeatureMetadata ==
    "Expecting type FeatureMetadata but got {0}"
MsgNoTimeColumn ==
    "There was no time column name in feature metadata. A time column is required for forecasting."
MsgTimeColumnNotInData ==
    "The provided model expects a time column named {0} that is not present in the provided dataset."
MsgTimeColumnMismatch ==
    "The provided time column name {0} does not match the model's expected time column name {1}."
MsgMetadataInvalid ==
    "The given feature is not present in the user features."

----------------------------------------------------------------------------
(* The collaborators: model, serializer, feature metadata *)

\* A model object. predict is "ok", "short" (predict returns one value fewer
\* than it was given rows), "raises" (predict throws), "mutates" (predict
\* changes the columns of its argument) or "absent" (no such attribute);
\* time_column_name is None when the attribute is absent or None.
Model(predict, predict_quantiles, time_column_name) ==
    [present |-> TRUE, predict |-> predict, predict_quantiles |-> predict_quantiles,
     time_column_name |-> time_column_name]

NoModel ==
    [present |-> FALSE, predict |-> "absent", predict_quantiles |-> FALSE,
     time_column_name |-> None]

\* The value a call of the model returns: which method answered, on which
\* table, and how many values it holds (one per row of the table).
Output(method, df) ==
    [method |-> method, columns |-> df.columns, nrows |-> len(df), length |-> len(df)]

NoOutput == [method |-> "None", columns |-> << >>, nrows |-> 0, length |-> 0]

\* model.predict(df) / model.predict_quantiles(df) of a model that answers:
\* the "short" model leaves out the value of the last row.
Predict(model, method, df) ==
    IF model.predict = "short" /\ len(df) > 0
    THEN [Output(method, df) EXCEPT !.length = len(df) - 1]
    ELSE Output(method, df)

is_forecaster(model) == model.present /\ model.predict # "absent"

is_quantile_forecaster(model) == is_forecaster(model) /\ model.predict_quantiles

Serializer(save, load, picklable) ==
    [present |-> TRUE, save |-> save, load |-> load, picklable |-> picklable]

NoSerializer == [present |-> FALSE, save |-> FALSE, load |-> FALSE, picklable |-> FALSE]

\* kind is "None" (no object), "FeatureMetadata", or "other" (an object of
\* another class that has the same attributes).
FeatureMetadata(kind, categorical_features, time_column_name, time_series_id_column_names) ==
    [kind |-> kind, categorical_features |-> categorical_features,
     time_column_name |-> time_column_name,
     time_series_id_column_names |-> time_series_id_column_names]

NoFeatureMetadata == FeatureMetadata("None", NoneList, None, NoneList)

\* FeatureMetadata(): nothing declared.
DefaultFeatureMetadata == FeatureMetadata("FeatureMetadata", NoneList, None, NoneList)

\* x or [] for an optional list.
OrEmpty(list) == IF list = NoneList THEN << >> ELSE list

\* FeatureMetadata.validate(feature_names): every declared column exists.
FeatureMetadata_validate(feature_metadata, feature_names) ==
    LET declared ==
            ToSet(OrEmpty(feature_metadata.categorical_features))
            \cup ToSet(OrEmpty(feature_metadata.time_series_id_column_names))
            \cup (IF feature_metadata.time_column_name = None THEN {}
                  ELSE {feature_metadata.time_column_name})
        missing == declared \ ToSet(feature_names)
    IN IF missing # {}
       THEN UserConfigValidationException(
                MsgMetadataInvalid, << >>, missing)
       ELSE NoError

----------------------------------------------------------------------------
(* _ensure_time_column_available *)

\* Lines 378-381 without the test that the column is in feature_names.
AdoptModelTimeColumnUnchecked(feature_metadata, feature_names, model_time_column) ==
    [error |-> NoError,
     feature_metadata |-> [feature_metadata EXCEPT !.time_column_name = model_time_column]]

\* Lines 377-386: metadata declares no time column, the model does.
AdoptModelTimeColumn(feature_metadata, feature_names, model_time_column) ==
    IF model_time_column \in ToSet(feature_names)
    THEN [error |-> NoError,
          feature_metadata |->
              [feature_metadata EXCEPT !.time_column_name = model_time_column]]
    ELSE [error |-> UserConfigValidationException(
                        MsgTimeColumnNotInData,
                        << >>, {model_time_column}),
          feature_metadata |-> feature_metadata]

\* The error raised (NoError on return) and the metadata object afterwards.
_ensure_time_column_available(feature_metadata, feature_names, model) ==
    LET fm_time_column == feature_metadata.time_column_name
        model_time_column == model.time_column_name
    IN IF model_time_column = None
       THEN IF fm_time_column # None
            THEN [error |-> NoError, feature_metadata |-> feature_metadata]
            ELSE [error |-> UserConfigValidationException(
                                MsgNoTimeColumn,
                                << >>, {}),
                  feature_metadata |-> feature_metadata]
       ELSE IF fm_time_column = None
            THEN AdoptModelTimeColumn(feature_metadata, feature_names, model_time_column)
            ELSE IF fm_time_column # model_time_column
                 THEN [error |-> UserConfigValidationException(
                                     MsgTimeColumnMismatch,
                                     << >>, {fm_time_column, model_time_column}),
                       feature_metadata |-> feature_metadata]
                 ELSE [error |-> NoError, feature_metadata |-> feature_metadata]

----------------------------------------------------------------------------
(* _validate_rai_insights_input_parameters                                *)
(* train and test are DataFrames throughout, so the branch of lines        *)
(* 309-313 (another data type) is never taken; the warning of lines        *)
(* 189-192 changes no state.                                               *)

\* Lines 188-211: the model and the serializer.
ValidateSerializer(model, serializer) ==
    IF ~model.present /\ serializer.present
    THEN UserConfigValidationException(
             MsgSerializerWithoutModel, << >>, {})
    ELSE IF serializer.present /\ ~serializer.save
    THEN UserConfigValidationException(MsgNoSave, << >>, {})
    ELSE IF serializer.present /\ ~serializer.load
    THEN UserConfigValidationException(MsgNoLoad, << >>, {})
    ELSE IF serializer.present /\ ~serializer.picklable
    THEN UserConfigValidationException(
             MsgNotPicklable, << >>, {})
    ELSE NoError

\* The test of line 220 with >= for >.
ExceedsMaximumRowsInclusive(test, maximum_rows_for_test) == len(test) >= maximum_rows_for_test

\* test.shape[0] > maximum_rows_for_test
ExceedsMaximumRows(test, maximum_rows_for_test) == len(test) > maximum_rows_for_test

\* The test of lines 230-231 on the column lists instead of the column sets.
ColumnListsDiffer(train, test) == train.columns # test.columns

\* Lines 230-231: the two set differences.
ColumnsDiffer(train, test) ==
    \/ Cardinality(ToSet(train.columns) \ ToSet(test.columns)) # 0
    \/ Cardinality(ToSet(test.columns) \ ToSet(train.columns)) # 0

\* Lines 214-240: sizes, column sets, target.
ValidateShape(is_true_y_present, train, test, target_column, maximum_rows_for_test) ==
    IF len(train) <= 0 \/ len(test) <= 0
    THEN UserConfigValidationException(
             MsgEmpty,
             << >>, {})
    ELSE IF ExceedsMaximumRows(test, maximum_rows_for_test)
    THEN UserConfigValidationException(
             MsgTooManyRows,
             << len(test), maximum_rows_for_test >>, {})
    ELSE IF ColumnsDiffer(train, test) /\ is_true_y_present
    THEN UserConfigValidationException(
             MsgFeaturesDoNotMatch, << >>, {})
    ELSE IF target_column \notin ToSet(train.columns)
    THEN UserConfigValidationException(
             MsgTargetNotInTrain, << >>, {target_column})
    ELSE NoError

\* np.unique(df[column]) raises: no such column, or cells that cannot be sorted.
UniqueRaises(df, column) == column \notin ToSet(df.columns) \/ ~Comparable(df, column)

\* Lines 242-273: the declared categorical features.
ValidateCategoricals(train, test, target_column, feature_metadata) ==
    IF feature_metadata.kind = "None"
    THEN Raise("AttributeError",
               "'NoneType' object has no attribute 'categorical_features'", << >>, {})
    ELSE
    LET categorical_features == feature_metadata.categorical_features
    IN IF categorical_features = NoneList \/ Len(categorical_features) = 0
       THEN NoError
       ELSE
       LET difference_set ==
               ToSet(categorical_features) \ ToSet(drop(train, target_column).columns)
           bad == {i \in DOMAIN categorical_features :
                       \/ UniqueRaises(train, categorical_features[i])
                       \/ UniqueRaises(test, categorical_features[i])}
           first == CHOOSE i \in bad : \A j \in bad : i <= j
       IN IF target_column \in ToSet(categorical_features)
          THEN UserConfigValidationException(
                   MsgTargetCategorical, << >>, {target_column})
          ELSE IF Cardinality(difference_set) > 0
          THEN UserConfigValidationException(
                   MsgCategoricalNotInTrain,
                   << >>, difference_set)
          ELSE IF bad = {}
          THEN NoError
          ELSE IF UniqueRaises(train, categorical_features[first])
          THEN UserConfigValidationException(
                   MsgUniqueTrain,
                   << >>, {categorical_features[first]})
          ELSE UserConfigValidationException(
                   MsgUniqueTest,
                   << >>, {categorical_features[first]})

\* Lines 275-286: the non-numeric columns must be declared categorical.
ValidateStringFeatures(train, target_column, feature_metadata) ==
    LET categorical_features == feature_metadata.categorical_features
        train_features == drop(train, target_column).columns
        numeric_features == select_dtypes_number(drop(train, target_column))
        string_features_set == ToSet(train_features) \ ToSet(numeric_features)
        time_column_name == feature_metadata.time_column_name
        remaining == IF feature_metadata.kind # "None" /\ time_column_name # None
                     THEN string_features_set \ {time_column_name}
                     ELSE string_features_set
    IN IF /\ feature_metadata.kind # "None"
          /\ time_column_name # None
          /\ time_column_name \notin string_features_set
       THEN Raise("KeyError", "{0}", << >>, {time_column_name})
       ELSE IF categorical_features = NoneList
       THEN Raise("TypeError", "'NoneType' object is not iterable", << >>, {})
       ELSE IF Cardinality(remaining \ ToSet(categorical_features)) > 0
       THEN UserConfigValidationException(
                MsgStringFeatures,
                << >>, remaining \ ToSet(categorical_features))
       ELSE NoError

\* The single row handed to model.predict by the spot check.
small_test_data(is_true_y_present, test, target_column) ==
    IF is_true_y_present THEN drop(iloc01(test), target_column) ELSE iloc01(test)

\* _validate_features_same
_validate_features_same(small_train_features_before, small_train_features_after) ==
    IF small_train_features_before # small_train_features_after
    THEN UserConfigValidationException(
             MsgPredictModifies,
             << >>, {})
    ELSE NoError

\* Lines 288-308: one-row spot check of model.predict.
ValidatePredict(is_true_y_present, model, test, target_column) ==
    LET small == small_test_data(is_true_y_present, test, target_column)
        small_test_features_before == small.columns
        small_test_features_after ==
            IF model.predict = "mutates" THEN Append(small.columns, "hour")
            ELSE small.columns
    IN IF ~model.present
       THEN NoError
       ELSE IF model.predict \in {"raises", "absent"}
       THEN UserConfigValidationException(
                MsgCannotPredict,
                << >>, {})
       ELSE _validate_features_same(small_test_features_before, small_test_features_after)

\* The calls of the model the spot check makes.
ValidatePredictCalls(is_true_y_present, model, test, target_column) ==
    IF model.present /\ model.predict # "absent"
    THEN << Predict(model, "predict", small_test_data(is_true_y_present, test, target_column)) >>
    ELSE << >>

\* Lines 315-324: type of the metadata, time column, metadata's own validation.
ValidateFeatureMetadata(model, train, feature_metadata) ==
    IF feature_metadata.kind = "None"
    THEN [error |-> NoError, feature_metadata |-> feature_metadata]
    ELSE IF feature_metadata.kind # "FeatureMetadata"
    THEN [error |-> UserConfigValidationException(
                        MsgNotFeatureMetadata, << >>, {}),
          feature_metadata |-> feature_metadata]
    ELSE LET feature_names == train.columns
             ensured == _ensure_time_column_available(feature_metadata, feature_names, model)
         IN IF ensured.error # NoError
            THEN ensured
            ELSE [error |-> FeatureMetadata_validate(ensured.feature_metadata, feature_names),
                  feature_metadata |-> ensured.feature_metadata]

\* The whole validation: the error raised (NoError when it returns), the
\* caller's metadata object afterwards, and the calls of the model it made.
_validate_rai_insights_input_parameters(is_true_y_present, model, train, test, target_column, serializer, maximum_rows_for_test, feature_metadata) ==
    LET Failed(e) == [error |-> e, feature_metadata |-> feature_metadata, calls |-> << >>]
        e1 == ValidateSerializer(model, serializer)
        e2 == ValidateShape(is_true_y_present, train, test, target_column,
                            maximum_rows_for_test)
        e3 == ValidateCategoricals(train, test, target_column, feature_metadata)
        e4 == ValidateStringFeatures(train, target_column, feature_metadata)
        e5 == ValidatePredict(is_true_y_present, model, test, target_column)
        calls == ValidatePredictCalls(is_true_y_present, model, test, target_column)
        r6 == ValidateFeatureMetadata(model, train, feature_metadata)
    IN IF e1 # NoError THEN Failed(e1)
       ELSE IF e2 # NoError THEN Failed(e2)
       ELSE IF e3 # NoError THEN Failed(e3)
       ELSE IF e4 # NoError THEN Failed(e4)
       ELSE IF e5 # NoError THEN [Failed(e5) EXCEPT !.calls = calls]
       ELSE [error |-> r6.error, feature_metadata |-> r6.feature_metadata, calls |-> calls]

----------------------------------------------------------------------------
(* _get_feature_ranges, process_categoricals *)

NoValue == [t |-> "None", n |-> 0, s |-> << >>]

FeatureRange(column_name, range_type, unique_values, min_value, max_value) ==
    [column_name |-> column_name, range_type |-> range_type,
     unique_values |-> unique_values, min_value |-> min_value, max_value |-> max_value]

\* The range_type "numeric" in the place of the one line 618 writes.
NumericRangeTypeNumeric == "numeric"

\* Line 618: the range_type written for a column that is neither categorical
\* nor the time column.
NumericRangeType == "integer"

\* The exception the loop body raises for column col (NoError when none).
FeatureRangeError(test, categorical_features, col, time_column_name) ==
    IF col \in ToSet(categorical_features) THEN NoError
    ELSE IF ~Comparable(test, col)
    THEN Raise("TypeError", "'<=' not supported between instances of 'str' and 'int'", << >>, {col})
    ELSE IF col = time_column_name THEN NoError
    ELSE IF ~CanFloat(min(Column(test, col)))
    THEN Raise("ValueError", "could not convert string to float", << >>, {col})
    ELSE NoError

\* The res_object the loop body appends for column col.
FeatureRangeOf(test, categorical_features, col, time_column_name) ==
    IF col \in ToSet(categorical_features)
    THEN FeatureRange(col, "categorical", unique(Column(test, col)), NoValue, NoValue)
    ELSE IF col = time_column_name
    THEN FeatureRange(col, "datetime", << >>, min(Column(test, col)), max(Column(test, col)))
    ELSE FeatureRange(col, NumericRangeType, << >>,
                      float(min(Column(test, col))), float(max(Column(test, col))))

\* The error raised (NoError on return) and the list returned.
_get_feature_ranges(test, categorical_features, feature_columns, time_column_name) ==
    LET bad == {i \in DOMAIN feature_columns :
                    FeatureRangeError(test, categorical_features, feature_columns[i],
                                      time_column_name) # NoError}
        first == CHOOSE i \in bad : \A j \in bad : i <= j
    IN IF bad # {}
       THEN [error |-> FeatureRangeError(test, categorical_features,
                                         feature_columns[first], time_column_name),
             result |-> << >>]
       ELSE [error |-> NoError,
             result |-> [i \in DOMAIN feature_columns |->
                            FeatureRangeOf(test, categorical_features,
                                           feature_columns[i], time_column_name)]]

\* erroranalysis process_categoricals: the distinct values of every categorical
\* feature and the positions of the categorical features.
process_categoricals(all_feature_names, categorical_features, dataset) ==
    [categories |-> [i \in DOMAIN categorical_features |->
                        unique(Column(dataset, categorical_features[i]))],
     categorical_indexes |-> {i \in DOMAIN all_feature_names :
                                  all_feature_names[i] \in ToSet(categorical_features)}]

----------------------------------------------------------------------------
(* _generate_time_series_cohorts *)

\* The id-column values of row i of df, as a tuple.
Combination(df, id_columns, i) == [k \in DOMAIN id_columns |-> df.rows[i][id_columns[k]]]

\* The distinct combinations of df[id_columns] (the index of value_counts()).
Combinations(df, id_columns) == {Combination(df, id_columns, i) : i \in DOMAIN df.rows}

\* How many rows of df have the combination.
Count(df, id_columns, combination) ==
    Cardinality({i \in DOMAIN df.rows : Combination(df, id_columns, i) = combination})

\* value_counts() orders by descending count; the order among equal counts
\* is not fixed. The orders it can produce:
ValueCountsOrders(df, id_columns) ==
    LET combos == Combinations(df, id_columns)
        n == Cardinality(combos)
    IN {order \in [1..n -> combos] :
            /\ \A a, b \in 1..n : a # b => order[a] # order[b]
            /\ \A a, b \in 1..n :
                   a < b => Count(df, id_columns, order[a]) >= Count(df, id_columns, order[b])}

\* f"{col} = {val}"
NameValuePair(col, val) == Chars[col] \o << " ", "=", " " >> \o val

\* list += value, for a list of str and a value that is a str: the list is
\* extended by the elements of the iterable, and a str iterates its characters.
PlusEquals(list, value) == list \o [i \in DOMAIN value |-> << value[i] >>]

RECURSIVE join(_, _)
\* separator.join(list)
join(separator, list) ==
    IF list = << >> THEN << >>
    ELSE IF Len(list) = 1 THEN list[1]
    ELSE list[1] \o separator \o join(separator, Tail(list))

RECURSIVE NameValueMapping(_, _)
\* id_columns_name_value_mapping after the inner loop over the pairs.
NameValueMapping(id_columns, values) ==
    IF id_columns = << >> THEN << >>
    ELSE LET k == Len(id_columns)
         IN PlusEquals(NameValueMapping(SubSeq(id_columns, 1, k - 1), SubSeq(values, 1, k - 1)),
                       NameValuePair(id_columns[k], values[k]))

CohortFilter(method, arg, column) == [method |-> method, arg |-> arg, column |-> column]

Cohort(name, cohort_filter_list) == [name |-> name, cohort_filter_list |-> cohort_filter_list]

\* The outer loop's pass with a filter for the first id column only.
TimeSeriesCohortFirstFilter(id_columns, time_series_id_values) ==
    LET values == [k \in DOMAIN time_series_id_values |-> str(time_series_id_values[k])]
    IN Cohort(join(<< ",", " " >>, NameValueMapping(id_columns, values)),
              << CohortFilter("includes", << values[1] >>, id_columns[1]) >>)

\* The cohort built for one combination (one pass of the outer loop).
TimeSeriesCohort(id_columns, time_series_id_values) ==
    LET values == [k \in DOMAIN time_series_id_values |-> str(time_series_id_values[k])]
    IN Cohort(join(<< ",", " " >>, NameValueMapping(id_columns, values)),
              [k \in DOMAIN id_columns |->
                  CohortFilter("includes", << values[k] >>, id_columns[k])])

\* self.test[id_columns] raises KeyError: None, or a name test does not have.
IdColumnsMissing(test, id_columns) ==
    id_columns = NoneList \/ ~(ToSet(id_columns) \subseteq ToSet(test.columns))

\* The cohort list for one order of the combinations.
_generate_time_series_cohorts(id_columns, all_time_series) ==
    [i \in DOMAIN all_time_series |-> TimeSeriesCohort(id_columns, all_time_series[i])]

\* The rows of df a cohort selects: the conjunction of its inclusion
\* filters, each comparing the cell's string form with the filter's values.
Selected(df, cohort) ==
    {i \in DOMAIN df.rows :
        \A k \in DOMAIN cohort.cohort_filter_list :
            LET f == cohort.cohort_filter_list[k]
            IN str(df.rows[i][f.column]) \in ToSet(f.arg)}

----------------------------------------------------------------------------
(* _get_dataset: the payload of the dashboard *)

\* raiutils convert_to_list of a DataFrame: the rows, each a list of cells.
convert_to_list(df) ==
    [i \in DOMAIN df.rows |->
        [k \in DOMAIN df.columns |-> df.rows[i][df.columns[k]]]] \o << >>

\* The labels of a payload: cells of a column of test, or values a model
\* returned; source is "target", "predicted" or "None".
Labels(source, values, output) == [source |-> source, values |-> values, output |-> output]

NoLabels == Labels("None", << >>, NoOutput)

\* len(true_y)
LabelsLength(labels) ==
    IF labels.source = "target" THEN Len(labels.values) ELSE labels.output.length

\* Dataset(): an object without attributes; attrs names the ones assigned.
Dataset ==
    [attrs |-> {}, task_type |-> None, categorical_features |-> << >>,
     is_forecasting_true_y |-> FALSE, feature_metadata |-> NoFeatureMetadata,
     predicted_y |-> NoOutput, features |-> << >>, true_y |-> NoLabels,
     feature_names |-> << >>, target_column |-> None, pred_quantiles |-> NoOutput]

MsgModelPredict ==
    "Model does not support predict method for given"
MsgTooManyVisualizationRows ==
    "Exceeds maximum number of rowsfor visualization (100000)"
MsgTooManyFeatures ==
    "Exceeds maximum number of features for visualization (1000). Please regenerate the explanation using fewer features or initialize the dashboard without passing a dataset."
MsgIndexNotDates ==
    "time data {0} does not match format '%Y-%m-%d'"
MsgFeatureLengthMismatch ==
    "Feature vector length mismatch: feature names length differs from local explanations dimension"

ValueError(msg) == Raise("ValueError", msg, << >>, {})

\* Line 481.
ExceedsVisualizationRows(row_length) == row_length > 100000

\* The test of line 485 with the limit one feature higher.
ExceedsVisualizationFeaturesLenient(feature_length) == feature_length > 1001

\* Line 485.
ExceedsVisualizationFeatures(feature_length) == feature_length > 1000

\* How many of the values in calls came from predict.
PredictCalls(calls) == Cardinality({i \in DOMAIN calls : calls[i].method = "predict"})

\* Whether this call of predict changes the columns of its argument: the
\* "mutates" model always does, the "mutates_later" model from its third call.
PredictMutates(model, calls) ==
    \/ model.predict = "mutates"
    \/ model.predict = "mutates_later" /\ PredictCalls(calls) >= 2

\* The table after the model set its column hour (df["hour"] = 0).
WithHour(df) ==
    IF "hour" \in ToSet(df.columns) THEN df
    ELSE [columns |-> Append(df.columns, "hour"),
          rows |-> [i \in DOMAIN df.rows |->
                       [c \in ToSet(df.columns) \cup {"hour"} |->
                           IF c = "hour" THEN IntValue(0) ELSE df.rows[i][c]]] \o << >>]

\* true_y of line 502.
true_y_of(is_true_y_present, test, target_column, has_model, predicted_y) ==
    IF ~is_true_y_present
    THEN IF has_model THEN Labels("predicted", << >>, predicted_y) ELSE NoLabels
    ELSE Labels("target", Column(test, target_column), NoOutput)

\* Line 504 without the comparison of the lengths.
TrueYAttachedUnchecked(true_y, row_length) == true_y # NoLabels

\* Line 504: true_y is not None and len(true_y) == row_length.
TrueYAttached(true_y, row_length) == true_y # NoLabels /\ LabelsLength(true_y) = row_length

\* _get_dataset on the object obj whose test set has the index test_index,
\* after the model returned calls_before: the error raised (NoError on
\* return), the payload, the values the model returned in this call, and
\* self._test_without_true_y afterwards.
_get_dataset(obj, index, calls_before) ==
    LET dataset == obj._test_without_true_y
        list_dataset == convert_to_list(dataset)
        has_model == obj.model.present
        predicted_y == IF has_model THEN Predict(obj.model, "predict", dataset) ELSE NoOutput
        after_predict == IF has_model /\ PredictMutates(obj.model, calls_before)
                         THEN WithHour(dataset) ELSE dataset
        row_length == Len(list_dataset)
        feature_length == Len(list_dataset[1])
        true_y == true_y_of(obj._is_true_y_present, obj.test, obj.target_column,
                            has_model, predicted_y)
        features == after_predict.columns
        quantiles == is_quantile_forecaster(obj.model)
        pred_quantiles == Predict(obj.model, "predict_quantiles", after_predict)
        dashboard_dataset ==
            [Dataset EXCEPT
                !.attrs = {"task_type", "categorical_features", "is_forecasting_true_y",
                           "class_names", "feature_metadata", "features", "index",
                           "feature_names", "target_column"}
                          \cup (IF has_model THEN {"predicted_y"} ELSE {})
                          \cup (IF TrueYAttached(true_y, row_length) THEN {"true_y"} ELSE {})
                          \cup (IF quantiles THEN {"pred_quantiles"} ELSE {}),
                !.task_type = obj.task_type,
                !.categorical_features = OrEmpty(obj._feature_metadata.categorical_features),
                !.is_forecasting_true_y = obj._is_true_y_present,
                !.feature_metadata = obj._feature_metadata,
                !.predicted_y = predicted_y,
                !.features = list_dataset,
                !.true_y = IF TrueYAttached(true_y, row_length) THEN true_y ELSE NoLabels,
                !.feature_names = features,
                !.target_column = obj.target_column,
                !.pred_quantiles = IF quantiles THEN pred_quantiles ELSE NoOutput]
        Failed(e, made, df) ==
            [error |-> e, dashboard_dataset |-> Dataset, calls |-> made, dataset |-> df]
    IN IF has_model /\ obj.model.predict \in {"raises", "absent"}
       THEN Failed(ValueError(MsgModelPredict), << >>, dataset)
       ELSE IF row_length = 0
       THEN Failed(ValueError("not enough values to unpack (expected 2, got 1)"),
                   IF has_model THEN << predicted_y >> ELSE << >>, after_predict)
       ELSE IF ExceedsVisualizationRows(row_length)
       THEN Failed(ValueError(MsgTooManyVisualizationRows),
                   IF has_model THEN << predicted_y >> ELSE << >>, after_predict)
       ELSE IF ExceedsVisualizationFeatures(feature_length)
       THEN Failed(ValueError(MsgTooManyFeatures),
                   IF has_model THEN << predicted_y >> ELSE << >>, after_predict)
       ELSE IF index # "DatetimeIndex"
       THEN Failed(ValueError(MsgIndexNotDates),
                   IF has_model THEN << predicted_y >> ELSE << >>, after_predict)
       ELSE IF Len(features) # feature_length
       THEN Failed(ValueError(MsgFeatureLengthMismatch),
                   IF has_model THEN << predicted_y >> ELSE << >>, after_predict)
       ELSE [error |-> NoError, dashboard_dataset |-> dashboard_dataset,
             calls |-> (IF has_model THEN << predicted_y >> ELSE << >>)
                       \o (IF quantiles THEN << pred_quantiles >> ELSE << >>),
             dataset |-> after_predict]

----------------------------------------------------------------------------
(* State *)

VARIABLES
    model, train, test, target_column, serializer,   \* the constructor's arguments
    maximum_rows_for_test, feature_metadata,
    self,      \* the attributes of the object
    attrs,     \* the names of the attributes assigned so far
    pc,        \* the step __init__ stands at: new, validate, derive, super, predict,
               \* cohorts, done (ensure, ensured: a call of the time-column resolver)
    raised,    \* the exception that ended __init__ at step pc (NoError while none)
    calls,     \* the values the calls of the model returned so far, in order
    test_index,  \* test.index: "RangeIndex" (0, 1, ...) or "DatetimeIndex"
    returned,  \* the outcome of the latest call of a method of the object
    directory, \* the directory save() writes and load() reads
    inst       \* the object load() builds

args == << model, train, test, target_column, serializer, maximum_rows_for_test, test_index >>

\* What the methods called after construction write, besides the object.
after == << returned, directory, inst >>

vars == << model, train, test, target_column, serializer, maximum_rows_for_test,
           feature_metadata, self, attrs, pc, raised, calls, test_index,
           returned, directory, inst >>

EmptyFrame == [columns |-> << >>, rows |-> << >>]

\* The object before __init__ has assigned anything.
NewObject ==
    [_is_true_y_present |-> FALSE, _feature_metadata |-> NoFeatureMetadata,
     task_type |-> None, _classes |-> None, _test_without_true_y |-> EmptyFrame,
     _feature_columns |-> << >>, _feature_ranges |-> << >>,
     _categories |-> << >>, _categorical_indexes |-> {},
     model |-> NoModel, train |-> EmptyFrame, test |-> EmptyFrame,
     target_column |-> None, _serializer |-> NoSerializer,
     predict_output |-> NoOutput, quantile_predict_output |-> NoOutput,
     _time_series |-> << >>, _dataframeColumns |-> << >>,
     categorical_features |-> NoneList]

----------------------------------------------------------------------------
(* save and load: the directory, JSON, the object load builds *)

\* A JSON scalar: null, a string or a number, with its text.
JsonValue(kind, text) == [kind |-> kind, text |-> text]

\* json.dump of a cell value: a str becomes a JSON string, an int or a float
\* a JSON number with the same digits, None becomes null.
json_dump(v) ==
    IF v.t = "None" THEN JsonValue("null", << >>)
    ELSE JsonValue(IF v.t = "str" THEN "string" ELSE "number", v.s)

\* The ordering key of a character: the digit's value, the letter's position.
Rank(ch) ==
    IF ch \in ToSet(Digits) THEN (CHOOSE k \in 0..9 : Digits[k + 1] = ch)
    ELSE IF ch = "A" THEN 1 ELSE IF ch = "B" THEN 2 ELSE 0

\* json.loads of a JSON scalar: a number with a point is a float, another
\* number an int; the ordering key is read from the text.
json_loads(j) ==
    IF j.kind = "null" THEN NoValue
    ELSE IF j.kind = "string"
    THEN [t |-> "str", n |-> IF j.text = << >> THEN 0 ELSE Rank(j.text[Len(j.text)]),
          s |-> j.text]
    ELSE [t |-> IF "." \in ToSet(j.text) THEN "float" ELSE "int",
          n |-> Rank(j.text[1]), s |-> j.text]

\* One entry of feature_ranges written to meta.json / read from it.
FeatureRangeToJson(r) ==
    [r EXCEPT !.unique_values = [i \in DOMAIN r.unique_values |-> json_dump(r.unique_values[i])],
              !.min_value = json_dump(r.min_value),
              !.max_value = json_dump(r.max_value)]

FeatureRangeFromJson(r) ==
    [r EXCEPT !.unique_values = [i \in DOMAIN r.unique_values |-> json_loads(r.unique_values[i])],
              !.min_value = json_loads(r.min_value),
              !.max_value = json_loads(r.max_value)]

\* predict.json: json.dumps(output.tolist()), and np.array(json.load(file)).
JsonArray(output) == [kind |-> "array", length |-> output.length, of |-> output]
NoJsonArray == [kind |-> "absent", length |-> 0, of |-> NoOutput]
np_array(array) == [array.of EXCEPT !.length = array.length]

\* meta.json
Meta(target, task_type, feature_columns, feature_ranges, metadata) ==
    [target_column |-> target, task_type |-> task_type, classes |-> None,
     feature_columns |-> feature_columns, feature_ranges |-> feature_ranges,
     feature_metadata |-> metadata]

NoMeta == Meta(None, None, << >>, << >>, NoFeatureMetadata)

\* The directory: files names what was written.
NoDirectory ==
    [files |-> {}, predict_json |-> NoJsonArray, meta |-> NoMeta,
     train |-> EmptyFrame, test |-> EmptyFrame, model |-> NoModel,
     serializer |-> NoSerializer]

AttributeError(msg) == Raise("AttributeError", msg, << >>, {})

\* _save_predictions: the error raised (NoError on return) and the directory.
_save_predictions(obj, obj_attrs, dir) ==
    LET made == [dir EXCEPT !.files = @ \cup {"predictions"}]
        written == [made EXCEPT !.files = @ \cup {"predictions/predict.json"},
                                !.predict_json = JsonArray(obj.predict_output)]
    IN IF ~obj.model.present
       THEN [error |-> NoError, directory |-> made]
       ELSE IF obj.predict_output = NoOutput
       THEN [error |-> AttributeError("'NoneType' object has no attribute 'tolist'"),
             directory |-> made]
       ELSE IF "predict_proba_output" \notin obj_attrs
       THEN [error |-> AttributeError("object has no attribute 'predict_proba_output'"),
             directory |-> written]
       ELSE [error |-> NoError, directory |-> written]

\* _save_metadata
_save_metadata(obj, dir) ==
    [dir EXCEPT !.files = @ \cup {"meta.json"},
                !.meta = Meta(obj.target_column, obj.task_type, obj._feature_columns,
                              [i \in DOMAIN obj._feature_ranges |->
                                  FeatureRangeToJson(obj._feature_ranges[i])],
                              obj._feature_metadata)]

\* RAIBaseInsights._save_data, _save_model: the tables and the model.
RAIBaseInsights_save_data(obj, dir) ==
    [dir EXCEPT !.files = @ \cup {"data"} \cup (IF obj.model.present THEN {"model"} ELSE {}),
                !.train = obj.train, !.test = obj.test, !.model = obj.model,
                !.serializer = obj._serializer]

\* RAIBaseInsights.save: predictions, metadata, data, model, in this order.
save(obj, obj_attrs, dir) ==
    LET predictions == _save_predictions(obj, obj_attrs, dir)
    IN IF predictions.error # NoError THEN predictions
       ELSE [error |-> NoError,
             directory |-> RAIBaseInsights_save_data(
                               obj, _save_metadata(obj, predictions.directory))]

\* The object load() builds: obj holds the values of inst.__dict__, attrs its keys.
Instance(inst_attrs, obj) == [attrs |-> inst_attrs, obj |-> obj]

\* RAIForecastingInsights.__new__(RAIForecastingInsights)
NoInstance == Instance({}, NewObject)

KeyError(key) == Raise("KeyError", "{0}", << >>, {key})

FileNotFoundError(file) == Raise("FileNotFoundError", "No such file or directory: {0}", << >>, {file})

\* RAIBaseInsights._load before the metadata: the tables and the model.
RAIBaseInsights_load_data(i, dir) ==
    Instance(i.attrs \cup {"train", "test", "model", "_serializer", "_managers"},
             [i.obj EXCEPT !.train = dir.train, !.test = dir.test, !.model = dir.model,
                           !._serializer = dir.serializer])

\* Lines 652-660: the FeatureMetadata built from the four keys that are read.
LoadedFeatureMetadata(metadata) ==
    FeatureMetadata("FeatureMetadata", metadata.categorical_features, None, NoneList)

\* _load_metadata: the error raised (NoError on return) and inst afterwards.
_load_metadata(i, dir) ==
    LET meta == dir.meta
        read ==
            Instance(i.attrs \cup {"target_column", "task_type", "_classes",
                                   "_feature_columns", "_feature_ranges",
                                   "_feature_metadata"},
                     [i.obj EXCEPT
                         !.target_column = meta.target_column,
                         !.task_type = meta.task_type,
                         !._classes = None,
                         !._feature_columns = meta.feature_columns,
                         !._feature_ranges = [k \in DOMAIN meta.feature_ranges |->
                                                 FeatureRangeFromJson(meta.feature_ranges[k])],
                         !._feature_metadata =
                             IF meta.feature_metadata.kind = "None" THEN NoFeatureMetadata
                             ELSE LoadedFeatureMetadata(meta.feature_metadata)])
        categorical_features == OrEmpty(read.obj.categorical_features)
        processed == process_categoricals(read.obj._feature_columns, categorical_features,
                                          drop(read.obj.test, read.obj.target_column))
    IN IF "meta.json" \notin dir.files
       THEN [error |-> FileNotFoundError("meta.json"), inst |-> i]
       ELSE IF "categorical_features" \notin read.attrs
       THEN [error |-> KeyError("categorical_features"), inst |-> read]
       ELSE IF read.obj.target_column \notin ToSet(read.obj.test.columns)
       THEN [error |-> KeyError(read.obj.target_column), inst |-> read]
       ELSE [error |-> NoError,
             inst |-> Instance(read.attrs \cup {"_categories", "_categorical_indexes",
                                                 "_category_dictionary", "_string_ind_data"},
                               [read.obj EXCEPT
                                   !._categories = processed.categories,
                                   !._categorical_indexes = processed.categorical_indexes])]

\* _load_predictions
_load_predictions(i, dir) ==
    IF ~i.obj.model.present
    THEN [error |-> NoError,
          inst |-> Instance(i.attrs \cup {"predict_output", "predict_proba_output"},
                            [i.obj EXCEPT !.predict_output = NoOutput])]
    ELSE IF "predictions/predict.json" \notin dir.files
    THEN [error |-> FileNotFoundError("predictions/predict.json"), inst |-> i]
    ELSE [error |-> NoError,
          inst |-> Instance(i.attrs \cup {"predict_output", "predict_proba_output"},
                            [i.obj EXCEPT !.predict_output = np_array(dir.predict_json)])]

\* load: the error raised (NoError on return) and the object built.
load(dir) ==
    LET begun == RAIBaseInsights_load_data(NoInstance, dir)
        metadata == _load_metadata(begun, dir)
    IN IF "data" \notin dir.files
       THEN [error |-> FileNotFoundError("data"), inst |-> NoInstance]
       ELSE IF metadata.error # NoError THEN metadata
       ELSE _load_predictions(metadata.inst, dir)

\* The outcome of a call of a method: the error raised (NoError on return),
\* the payload of get_data, the rows of get_filtered_test_data.
Return(op, error, dataset, rows) ==
    [op |-> op, error |-> error, dataset |-> dataset, rows |-> rows]

NoReturn == Return("none", NoError, Dataset, {})

----------------------------------------------------------------------------
(* The enumerated arguments *)

Row(date, week, store, dept, sales) ==
    [c \in {"date", "week", "store", "dept", "sales"} |->
        CASE c = "date" -> date [] c = "week" -> week [] c = "store" -> store
          [] c = "dept" -> dept [] c = "sales" -> sales]

\* The rows tables are made of. In the third, store is the str "1", not the
\* int 1; the fourth has the store of the first and the dept of the second.
RowPool ==
    << Row(StrValue(<< "d", "1" >>, 1), IntValue(1), IntValue(1), StrValue(<< "A" >>, 1), IntValue(3)),
       Row(StrValue(<< "d", "2" >>, 2), IntValue(2), IntValue(2), StrValue(<< "B" >>, 2), IntValue(5)),
       Row(StrValue(<< "d", "1" >>, 1), IntValue(1), StrValue(<< "1" >>, 1), StrValue(<< "A" >>, 1), IntValue(4)),
       Row(StrValue(<< "d", "2" >>, 2), IntValue(2), IntValue(1), StrValue(<< "B" >>, 2), IntValue(5)) >>

RowSeqs(n) == UNION {[1..k -> ToSet(RowPool)] : k \in 0..n}

RowPrefixes(n) == {SubSeq(RowPool, 1, k) : k \in 0..n}

NumericColumns == << "week", "store", "sales" >>
PlainColumns == << "date", "week", "store", "sales" >>
PermutedColumns == << "store", "week", "date", "sales" >>
DeptColumns == << "date", "week", "store", "dept", "sales" >>
NoTargetColumns == << "date", "week", "store" >>

TrainTables ==
    {DataFrame(c, r) : c \in {NumericColumns, PlainColumns, DeptColumns, NoTargetColumns},
                       r \in {<< >>, SubSeq(RowPool, 1, 2)}}

TestColumnChoices == {NumericColumns, PlainColumns, PermutedColumns, DeptColumns, NoTargetColumns}

Models ==
    {NoModel}
    \cup {Model("ok", q, t) : q \in BOOLEAN, t \in {None, "date", "week", "hour"}}
    \cup {Model("raises", TRUE, None), Model("mutates", TRUE, None),
          Model("absent", FALSE, None), Model("short", TRUE, None)}

Serializers ==
    {NoSerializer}
    \cup {Serializer(TRUE, TRUE, TRUE), Serializer(FALSE, TRUE, TRUE),
          Serializer(TRUE, FALSE, TRUE), Serializer(TRUE, TRUE, FALSE)}

CategoricalChoices ==
    {NoneList, << >>, << "dept" >>, << "store", "dept" >>, << "sales", "dept" >>,
     << "dept", "zone" >>}

FeatureMetadatas ==
    {NoFeatureMetadata}
    \cup {FeatureMetadata(k, c, t, i) :
              k \in {"FeatureMetadata"}, c \in CategoricalChoices,
              t \in {None, "date", "week"},
              i \in {NoneList, << "store" >>, << "store", "dept" >>}}
    \cup {FeatureMetadata("other", << >>, "date", << "store" >>)}

Arguments(m, tr, te, tc, s, mx, fm) ==
    [model |-> m, train |-> tr, test |-> te, target_column |-> tc, serializer |-> s,
     maximum_rows_for_test |-> mx, feature_metadata |-> fm, test_index |-> "RangeIndex"]

\* Every table schema with every metadata, few rows, a model absent or able.
SchemaInputs ==
    {Arguments(m, tr, DataFrame(c, r), "sales", NoSerializer, mx, fm) :
        m \in {NoModel, Model("ok", TRUE, None)}, tr \in TrainTables,
        c \in TestColumnChoices, r \in RowPrefixes(MaxRows),
        mx \in {1, MaxRows}, fm \in FeatureMetadatas}

\* Every model, on tables that pass the data rules.
ModelInputs ==
    {Arguments(m, DataFrame(c, SubSeq(RowPool, 1, 2)), DataFrame(c, SubSeq(RowPool, 1, 2)),
               "sales", NoSerializer, MaxRows, FeatureMetadata("FeatureMetadata", cat, t, i)) :
        m \in Models, c \in {NumericColumns, PlainColumns, DeptColumns},
        cat \in {NoneList, << >>, << "dept" >>}, t \in {None, "date", "week"},
        i \in {NoneList, << "store" >>}}

\* Every sequence of test rows, for the cohorts.
RowInputs ==
    {Arguments(m, DataFrame(c, SubSeq(RowPool, 1, 2)), DataFrame(c, r),
               "sales", NoSerializer, MaxRows, FeatureMetadata("FeatureMetadata", cat, "date", i)) :
        m \in {NoModel, Model("ok", TRUE, None)}, c \in {PlainColumns, DeptColumns},
        r \in RowSeqs(MaxRows), cat \in {<< >>, << "dept" >>, << "store", "dept" >>},
        i \in {<< "store" >>, << "store", "dept" >>}}

\* Every serializer, with and without a model.
SerializerInputs ==
    {Arguments(m, DataFrame(PlainColumns, r), DataFrame(PlainColumns, r),
               "sales", s, MaxRows,
               FeatureMetadata("FeatureMetadata", << >>, "date", << "store" >>)) :
        m \in {NoModel, Model("ok", TRUE, None)}, s \in Serializers,
        r \in {<< >>, SubSeq(RowPool, 1, 2)}}

Inputs == SchemaInputs \cup ModelInputs \cup RowInputs \cup SerializerInputs

\* The constructions whose object is then used: every kind of model that
\* passes the spot check, test sets with and without the target column,
\* both kinds of index.
InsightsInputs ==
    {[Arguments(m, DataFrame(PlainColumns, SubSeq(RowPool, 1, 2)), DataFrame(c, r),
                "sales", NoSerializer, MaxRows,
                FeatureMetadata("FeatureMetadata", cat, "date", i))
         EXCEPT !.test_index = ix] :
        m \in {NoModel, Model("ok", TRUE, None), Model("short", TRUE, None),
               Model("mutates_later", TRUE, None)},
        c \in {PlainColumns, PermutedColumns, NoTargetColumns},
        r \in RowSeqs(MaxRows) \ {<< >>}, cat \in {<< >>, << "store" >>},
        i \in {<< "store" >>, << "date", "store" >>},
        ix \in {"RangeIndex", "DatetimeIndex"}}

\* The limits of the payload.
MaximumVisualizationRows == 100000
MaximumVisualizationFeatures == 1000

\* The names of n numeric feature columns.
FeatureColumns(n) == [k \in 1..n |-> "f" \o ToString(k)]

\* A table of one row with the column date, n numeric columns and sales.
WideTable(n) ==
    LET columns == << "date" >> \o FeatureColumns(n) \o << "sales" >>
    IN [columns |-> columns,
        rows |-> << [c \in ToSet(columns) |->
                        IF c = "date" THEN StrValue(<< "d", "1" >>, 1) ELSE IntValue(1)] >>]

\* A table of n equal rows with the columns date, store and sales.
TallTable(n) ==
    [columns |-> << "date", "store", "sales" >>,
     rows |-> [k \in 1..n |-> [c \in {"date", "store", "sales"} |-> RowPool[1][c]]] \o << >>]

\* Tables at and beyond the limits of rows and features, and small ones.
DatasetInputs(rows, features) ==
    {[Arguments(NoModel, TallTable(2), TallTable(rows + 1), "sales",
                NoSerializer, rows + 1,
                FeatureMetadata("FeatureMetadata", << >>, "date", << "store" >>))
         EXCEPT !.test_index = "DatetimeIndex"]}
    \cup {[Arguments(m, WideTable(n), WideTable(n), "sales", NoSerializer, MaxRows,
                     FeatureMetadata("FeatureMetadata", << >>, "date", << "date" >>))
              EXCEPT !.test_index = "DatetimeIndex"] :
             m \in {NoModel, Model("ok", TRUE, None)},
             n \in {features - 2, features - 1, features}}
    \cup {i \in InsightsInputs :
             /\ i.test \in {DataFrame(c, SubSeq(RowPool, 1, 2)) :
                                c \in {PlainColumns, NoTargetColumns}}
             /\ i.feature_metadata.categorical_features = << >>
             /\ i.feature_metadata.time_series_id_column_names = << "store" >>}

----------------------------------------------------------------------------
(* __init__ *)

Init ==
    /\ \E i \in Inputs :
        /\ model = i.model
        /\ train = i.train
        /\ test = i.test
        /\ target_column = i.target_column
        /\ serializer = i.serializer
        /\ maximum_rows_for_test = i.maximum_rows_for_test
        /\ feature_metadata = i.feature_metadata
        /\ test_index = i.test_index
    /\ self = NewObject
    /\ attrs = {}
    /\ pc = "new"
    /\ raised = NoError
    /\ calls = << >>
    /\ returned = NoReturn
    /\ directory = NoDirectory
    /\ inst = NoInstance

_check_true_y_present(target, df) == target \in ToSet(df.columns)

\* Lines 93-96 followed by the prediction on the test set, ahead of validation.
BeginCachingPredictions ==
    /\ pc = "new"
    /\ self' = [self EXCEPT
           !._is_true_y_present = _check_true_y_present(target_column, test),
           !._feature_metadata = IF feature_metadata.kind = "None"
                                 THEN DefaultFeatureMetadata ELSE feature_metadata,
           !.task_type = "forecasting",
           !.predict_output = Output("predict", test)]
    /\ attrs' = attrs \cup {"_is_true_y_present", "_feature_metadata", "task_type",
                            "predict_output"}
    /\ calls' = Append(calls, Output("predict", test))
    /\ pc' = "validate"
    /\ UNCHANGED << args, after, feature_metadata, raised >>

\* Lines 93-96.
Begin ==
    /\ pc = "new"
    /\ self' = [self EXCEPT
           !._is_true_y_present = _check_true_y_present(target_column, test),
           !._feature_metadata = IF feature_metadata.kind = "None"
                                 THEN DefaultFeatureMetadata ELSE feature_metadata,
           !.task_type = "forecasting"]
    /\ attrs' = attrs \cup {"_is_true_y_present", "_feature_metadata", "task_type"}
    /\ pc' = "validate"
    /\ UNCHANGED << args, after, feature_metadata, raised, calls >>

\* Lines 97-102. The caller's metadata object and self._feature_metadata are
\* one object when metadata was passed, so a change of one shows in the other.
Validate ==
    /\ pc = "validate" /\ raised = NoError
    /\ LET r == _validate_rai_insights_input_parameters(
                    self._is_true_y_present, model, train, test, target_column,
                    serializer, maximum_rows_for_test, feature_metadata)
       IN /\ feature_metadata' = r.feature_metadata
          /\ self' = IF feature_metadata.kind = "None" THEN self
                     ELSE [self EXCEPT !._feature_metadata = r.feature_metadata]
          /\ calls' = calls \o r.calls
          /\ raised' = r.error
          /\ pc' = IF r.error = NoError THEN "derive" ELSE pc
    /\ UNCHANGED << args, after, attrs >>

\* Lines 103-118.
Derive ==
    /\ pc = "derive" /\ raised = NoError
    /\ LET test_without_true_y ==
               IF ~self._is_true_y_present THEN test ELSE drop(test, target_column)
           feature_columns == test_without_true_y.columns
           categorical_features == OrEmpty(self._feature_metadata.categorical_features)
           ranges == _get_feature_ranges(test, categorical_features, feature_columns,
                                         self._feature_metadata.time_column_name)
           processed == process_categoricals(feature_columns, categorical_features,
                                             test_without_true_y)
       IN IF ranges.error # NoError
          THEN /\ self' = [self EXCEPT !._classes = None,
                                       !._test_without_true_y = test_without_true_y,
                                       !._feature_columns = feature_columns]
               /\ attrs' = attrs \cup {"_classes", "_test_without_true_y", "_feature_columns"}
               /\ raised' = ranges.error
               /\ pc' = pc
          ELSE /\ self' = [self EXCEPT !._classes = None,
                                       !._test_without_true_y = test_without_true_y,
                                       !._feature_columns = feature_columns,
                                       !._feature_ranges = ranges.result,
                                       !._categories = processed.categories,
                                       !._categorical_indexes = processed.categorical_indexes]
               /\ attrs' = attrs \cup {"_classes", "_test_without_true_y", "_feature_columns",
                                       "_feature_ranges", "_categories",
                                       "_categorical_indexes", "_category_dictionary",
                                       "_string_ind_data"}
               /\ raised' = raised
               /\ pc' = "super"
    /\ UNCHANGED << args, after, feature_metadata, calls >>

\* Lines 120-122: RAIBaseInsights.__init__ keeps the arguments.
SuperInit ==
    /\ pc = "super"
    /\ self' = [self EXCEPT !.model = model, !.train = train, !.test = test,
                            !.target_column = target_column, !._serializer = serializer]
    /\ attrs' = attrs \cup {"model", "train", "test", "target_column", "_serializer",
                            "_managers"}
    /\ pc' = "predict"
    /\ UNCHANGED << args, after, feature_metadata, raised, calls >>

\* Line 128 tests the function is_quantile_forecaster itself, which is an
\* object and so is true whatever the model.
QuantileBranchTaken(m) == TRUE

\* Lines 124-135.
CachePredictions ==
    /\ pc = "predict" /\ raised = NoError
    /\ IF is_forecaster(model)
       THEN LET output == Predict(model, "predict", self._test_without_true_y)
            IN IF QuantileBranchTaken(model)
               THEN IF model.predict_quantiles
                    THEN /\ self' = [self EXCEPT
                                !.predict_output = output,
                                !.quantile_predict_output =
                                    Predict(model, "predict_quantiles", self._test_without_true_y)]
                         /\ attrs' = attrs \cup {"predict_output", "quantile_predict_output"}
                         /\ calls' = calls \o << output,
                                Predict(model, "predict_quantiles", self._test_without_true_y) >>
                         /\ raised' = raised
                         /\ pc' = "cohorts"
                    ELSE /\ self' = [self EXCEPT !.predict_output = output]
                         /\ attrs' = attrs \cup {"predict_output"}
                         /\ calls' = Append(calls, output)
                         /\ raised' = Raise("AttributeError",
                                "object has no attribute 'predict_quantiles'", << >>, {})
                         /\ pc' = pc
               ELSE /\ self' = [self EXCEPT !.predict_output = output,
                                            !.quantile_predict_output = NoOutput]
                    /\ attrs' = attrs \cup {"predict_output", "quantile_predict_output"}
                    /\ calls' = Append(calls, output)
                    /\ raised' = raised
                    /\ pc' = "cohorts"
       ELSE /\ self' = [self EXCEPT !.predict_output = NoOutput,
                                    !.quantile_predict_output = NoOutput]
            /\ attrs' = attrs \cup {"predict_output", "quantile_predict_output"}
            /\ calls' = calls
            /\ raised' = raised
            /\ pc' = "cohorts"
    /\ UNCHANGED << args, after, feature_metadata >>

\* Line 137.
GenerateCohorts ==
    /\ pc = "cohorts" /\ raised = NoError
    /\ LET id_columns == self._feature_metadata.time_series_id_column_names
       IN IF IdColumnsMissing(self.test, id_columns)
          THEN /\ raised' = Raise("KeyError", "{0}", << >>, {})
               /\ pc' = pc
               /\ UNCHANGED << self, attrs >>
          ELSE \E all_time_series \in ValueCountsOrders(self.test, id_columns) :
                  /\ self' = [self EXCEPT !._time_series =
                                 _generate_time_series_cohorts(id_columns, all_time_series)]
                  /\ attrs' = attrs \cup {"_time_series"}
                  /\ raised' = raised
                  /\ pc' = "done"
    /\ UNCHANGED << args, after, feature_metadata, calls >>

\* Lines 454 and 507-515 of _get_dataset: the feature_names of the payload
\* get_data() returns are the columns of the target-stripped test set.
dataset_feature_names == self._test_without_true_y.columns

Next ==
    \/ Begin
    \/ Validate
    \/ Derive
    \/ SuperInit
    \/ CachePredictions
    \/ GenerateCohorts

Spec == Init /\ [][Next]_vars

----------------------------------------------------------------------------
(* The methods of the constructed object *)

\* Most values the model may have returned before get_data stops being called.
MaxCalls == 7

\* get_data with the payload's predictions written into the cache as well.
GetDataCaching ==
    /\ pc = "done"
    /\ Len(calls) + 2 <= MaxCalls
    /\ LET r == _get_dataset(self, test_index, calls)
       IN /\ self' = [self EXCEPT !._dataframeColumns = self._test_without_true_y.columns,
                                  !._test_without_true_y = r.dataset,
                                  !.test = IF self._is_true_y_present THEN @ ELSE r.dataset,
                                  !.predict_output = r.dashboard_dataset.predicted_y]
          /\ test' = IF self._is_true_y_present THEN test ELSE r.dataset
          /\ calls' = calls \o r.calls
          /\ returned' = Return("get_data", r.error, r.dashboard_dataset, {})
    /\ attrs' = attrs \cup {"_dataframeColumns"}
    /\ UNCHANGED << model, train, target_column, serializer, maximum_rows_for_test,
                    test_index, feature_metadata, pc, raised, directory, inst >>

\* get_data. The table handed to the model is self._test_without_true_y
\* itself, which is test itself when test has no target column: a change
\* the model makes to its argument is a change of these.
GetData ==
    /\ pc = "done"
    /\ Len(calls) + 2 <= MaxCalls
    /\ LET r == _get_dataset(self, test_index, calls)
       IN /\ self' = [self EXCEPT !._dataframeColumns = self._test_without_true_y.columns,
                                  !._test_without_true_y = r.dataset,
                                  !.test = IF self._is_true_y_present THEN @ ELSE r.dataset]
          /\ test' = IF self._is_true_y_present THEN test ELSE r.dataset
          /\ calls' = calls \o r.calls
          /\ returned' = Return("get_data", r.error, r.dashboard_dataset, {})
    /\ attrs' = attrs \cup {"_dataframeColumns"}
    /\ UNCHANGED << model, train, target_column, serializer, maximum_rows_for_test,
                    test_index, feature_metadata, pc, raised, directory, inst >>

\* get_filtered_test_data for a list of inclusion filters: the rows of the
\* target-stripped test set the cohort-filter collaborator selects.
GetFilteredTestData ==
    /\ pc = "done"
    /\ \E filters \in {<< >>} \cup {self._time_series[i].cohort_filter_list :
                                      i \in DOMAIN self._time_series} :
           returned' = Return("get_filtered_test_data", NoError, Dataset,
                              Selected(self._test_without_true_y, Cohort(<< >>, filters)))
    /\ UNCHANGED << args, feature_metadata, self, attrs, pc, raised, calls, directory, inst >>

\* save(path)
Save ==
    /\ pc = "done"
    /\ LET r == save(self, attrs, directory)
       IN /\ directory' = r.directory
          /\ returned' = Return("save", r.error, Dataset, {})
    /\ UNCHANGED << args, feature_metadata, self, attrs, pc, raised, calls, inst >>

\* RAIForecastingInsights.load(path) of a directory save() wrote to.
Load ==
    /\ pc = "done"
    /\ directory # NoDirectory
    /\ LET r == load(directory)
       IN /\ inst' = r.inst
          /\ returned' = Return("load", r.error, Dataset, {})
    /\ UNCHANGED << args, feature_metadata, self, attrs, pc, raised, calls, directory >>

InitInsights ==
    /\ \E i \in InsightsInputs :
        /\ model = i.model
        /\ train = i.train
        /\ test = i.test
        /\ target_column = i.target_column
        /\ serializer = i.serializer
        /\ maximum_rows_for_test = i.maximum_rows_for_test
        /\ feature_metadata = i.feature_metadata
        /\ test_index = i.test_index
    /\ self = NewObject
    /\ attrs = {}
    /\ pc = "new"
    /\ raised = NoError
    /\ calls = << >>
    /\ returned = NoReturn
    /\ directory = NoDirectory
    /\ inst = NoInstance

InitDataset ==
    /\ \E i \in DatasetInputs(MaximumVisualizationRows, MaximumVisualizationFeatures) :
        /\ model = i.model
        /\ train = i.train
        /\ test = i.test
        /\ target_column = i.target_column
        /\ serializer = i.serializer
        /\ maximum_rows_for_test = i.maximum_rows_for_test
        /\ feature_metadata = i.feature_metadata
        /\ test_index = i.test_index
    /\ self = NewObject
    /\ attrs = {}
    /\ pc = "new"
    /\ raised = NoError
    /\ calls = << >>
    /\ returned = NoReturn
    /\ directory = NoDirectory
    /\ inst = NoInstance

NextInsights ==
    \/ Begin
    \/ Validate
    \/ Derive
    \/ SuperInit
    \/ CachePredictions
    \/ GenerateCohorts
    \/ GetData
    \/ GetFilteredTestData
    \/ Save
    \/ Load

SpecInsights == InitInsights /\ [][NextInsights]_vars

\* Construction and get_data.
NextDataset ==
    \/ Begin
    \/ Validate
    \/ Derive
    \/ SuperInit
    \/ CachePredictions
    \/ GenerateCohorts
    \/ GetData

SpecDataset == InitDataset /\ [][NextDataset]_vars

----------------------------------------------------------------------------
(* _ensure_time_column_available on its own: every pairing of a metadata  *)
(* time column, a model time column and a list of feature names.          *)

InitTimeColumn ==
    /\ model \in Models
    /\ train \in {DataFrame(c, SubSeq(RowPool, 1, 2)) : c \in TestColumnChoices}
    /\ test = train
    /\ target_column = "sales"
    /\ serializer = NoSerializer
    /\ maximum_rows_for_test = MaxRows
    /\ feature_metadata \in
           {FeatureMetadata("FeatureMetadata", << >>, t, << "store" >>) :
                t \in {None, "date", "week", "hour"}}
    /\ self = [NewObject EXCEPT !._feature_metadata = feature_metadata]
    /\ attrs = {"_feature_metadata"}
    /\ pc = "ensure"
    /\ raised = NoError
    /\ calls = << >>
    /\ test_index = "RangeIndex"
    /\ returned = NoReturn
    /\ directory = NoDirectory
    /\ inst = NoInstance

EnsureTimeColumn ==
    /\ pc = "ensure"
    /\ LET r == _ensure_time_column_available(feature_metadata, train.columns, model)
       IN /\ feature_metadata' = r.feature_metadata
          /\ self' = [self EXCEPT !._feature_metadata = r.feature_metadata]
          /\ raised' = r.error
    /\ pc' = "ensured"
    /\ UNCHANGED << args, after, attrs, calls >>

NextTimeColumn == EnsureTimeColumn

SpecTimeColumn == InitTimeColumn /\ [][NextTimeColumn]_vars

----------------------------------------------------------------------------
(* The validation contract as stated: the ten rules, in the contract's words *)

ValidationFailed == pc = "validate" /\ raised # NoError

ValidationReturned == pc \in {"derive", "super", "predict", "cohorts", "done"}

ConstructionEnded == pc = "done" \/ (pc \notin {"ensure", "ensured"} /\ raised # NoError)

IsConfigValidationError(e) == e.exc = "UserConfigValidationException"

DeclaredCategoricals == ToSet(OrEmpty(feature_metadata.categorical_features))

\* The time column after resolution: the metadata's, else the model's.
ResolvedTimeColumn ==
    IF feature_metadata.time_column_name # None THEN feature_metadata.time_column_name
    ELSE model.time_column_name

TimeColumnUnresolvable ==
    \/ feature_metadata.time_column_name = None /\ model.time_column_name = None
    \/ /\ feature_metadata.time_column_name = None
       /\ model.time_column_name # None
       /\ model.time_column_name \notin ToSet(train.columns)
    \/ /\ feature_metadata.time_column_name # None
       /\ model.time_column_name # None
       /\ feature_metadata.time_column_name # model.time_column_name

RuleViolated(k) ==
    CASE k = 1 -> ~model.present /\ serializer.present
      [] k = 2 -> serializer.present
                  /\ ~(serializer.save /\ serializer.load /\ serializer.picklable)
      [] k = 3 -> len(train) = 0 \/ len(test) = 0
      [] k = 4 -> len(test) > maximum_rows_for_test
      [] k = 5 -> /\ target_column \in ToSet(test.columns)
                  /\ ToSet(train.columns) # ToSet(test.columns)
      [] k = 6 -> target_column \notin ToSet(train.columns)
      [] k = 7 -> \E c \in DeclaredCategoricals :
                      \/ c = target_column
                      \/ c \notin ToSet(train.columns)
                      \/ UniqueRaises(train, c)
                      \/ UniqueRaises(test, c)
      [] k = 8 -> \E c \in ToSet(train.columns) :
                      /\ c # target_column
                      /\ ~IsNumber(train, c)
                      /\ c # ResolvedTimeColumn
                      /\ c \notin DeclaredCategoricals
      [] k = 9 -> model.present /\ model.predict \in {"raises", "mutates", "absent"}
      [] k = 10 -> /\ feature_metadata.kind # "None"
                   /\ \/ feature_metadata.kind # "FeatureMetadata"
                      \/ TimeColumnUnresolvable
                      \/ FeatureMetadata_validate(feature_metadata, train.columns) # NoError

ViolatedRules == {k \in 1..10 : RuleViolated(k)}

LowestViolatedRule == CHOOSE k \in ViolatedRules : \A j \in ViolatedRules : k <= j

\* The rule an error message belongs to (0: to none).
RuleOfMessage(msg) ==
    CASE msg = MsgSerializerWithoutModel -> 1
      [] msg \in {MsgNoSave, MsgNoLoad, MsgNotPicklable} -> 2
      [] msg = MsgEmpty -> 3
      [] msg = MsgTooManyRows -> 4
      [] msg = MsgFeaturesDoNotMatch -> 5
      [] msg = MsgTargetNotInTrain -> 6
      [] msg \in {MsgTargetCategorical, MsgCategoricalNotInTrain, MsgUniqueTrain,
                  MsgUniqueTest} -> 7
      [] msg = MsgStringFeatures -> 8
      [] msg \in {MsgCannotPredict, MsgPredictModifies} -> 9
      [] msg \in {MsgNotFeatureMetadata, MsgNoTimeColumn, MsgTimeColumnNotInData,
                  MsgTimeColumnMismatch, MsgMetadataInvalid} -> 10
      [] OTHER -> 0

----------------------------------------------------------------------------
(* Claims *)

\* C1: once validation has ended, a violated rule among 1-10 means that
\* validation failed with the UserConfigValidationException of the
\* lowest-numbered violated rule, and validation never fails with an
\* exception of another kind.
C1_FirstViolatedRuleFails ==
    (ValidationFailed \/ ValidationReturned) =>
        /\ ValidationFailed => IsConfigValidationError(raised)
        /\ ViolatedRules # {} =>
               /\ ValidationFailed
               /\ IsConfigValidationError(raised)
               /\ RuleOfMessage(raised.msg) = LowestViolatedRule

\* The attributes that hold derived state.
DerivedAttrs ==
    {"_feature_ranges", "_categories", "_categorical_indexes", "_category_dictionary",
     "_string_ind_data", "predict_output", "quantile_predict_output", "_time_series"}

\* C2: while validation has not returned successfully (before it, during it,
\* or after it failed) no derived attribute is assigned, the derived fields
\* are empty, and the model has been called at most once, by predict on a
\* single row; derived attributes exist only after validation has returned.
C2_NoDerivedStateBeforeValidation ==
    /\ (pc \in {"new", "validate"}) =>
           /\ attrs \cap DerivedAttrs = {}
           /\ self._feature_ranges = << >>
           /\ self._categories = << >>
           /\ self.predict_output = NoOutput
           /\ self.quantile_predict_output = NoOutput
           /\ self._time_series = << >>
           /\ Len(calls) <= 1
           /\ \A i \in DOMAIN calls : calls[i].method = "predict" /\ calls[i].nrows = 1
    /\ (attrs \cap DerivedAttrs # {}) => ValidationReturned

\* A failed validation after the spot check called the model.
C2_Witness ==
    /\ ValidationFailed
    /\ Len(calls) = 1
    /\ len(test) = MaxRows
    /\ attrs \cap DerivedAttrs = {}

\* C3: _ensure_time_column_available raises a UserConfigValidationException
\* exactly when neither side declares a time column, or only the model does
\* and its column is not among the feature names, or both do and the names
\* differ; otherwise it returns, and the metadata's time column is then the
\* one it had when it had one, and the model's when it had none.
C3_TimeColumnResolution ==
    [][(pc = "ensure" /\ pc' = "ensured") =>
          /\ TimeColumnUnresolvable <=> IsConfigValidationError(raised')
          /\ ~TimeColumnUnresolvable =>
                 /\ raised' = NoError
                 /\ feature_metadata'.time_column_name =
                        IF feature_metadata.time_column_name # None
                        THEN feature_metadata.time_column_name
                        ELSE model.time_column_name]_vars

\* The resolver refused a model time column that the data does not have.
C3_Witness ==
    /\ pc = "ensured"
    /\ raised.msg = MsgTimeColumnNotInData
    /\ model.time_column_name \notin ToSet(train.columns)
    /\ feature_metadata.time_column_name = None

\* C4: when neither the model nor the metadata (supplied or not) has a time
\* column and rules 1-9 are not violated, construction ends in validation
\* with the "no time column" UserConfigValidationException.
C4_NoTimeColumnFails ==
    (/\ ConstructionEnded
     /\ model.time_column_name = None
     /\ feature_metadata.time_column_name = None
     /\ \A k \in 1..9 : ~RuleViolated(k))
    => /\ ValidationFailed
       /\ raised = UserConfigValidationException(MsgNoTimeColumn, << >>, {})

MismatchWithGroundTruth ==
    /\ \A k \in 1..4 : ~RuleViolated(k)
    /\ target_column \in ToSet(test.columns)
    /\ ToSet(train.columns) # ToSet(test.columns)

\* Rules 1-4 pass and test lacks the target column that train has.
TestMissingTarget ==
    /\ \A k \in 1..4 : ~RuleViolated(k)
    /\ target_column \in ToSet(train.columns)
    /\ target_column \notin ToSet(test.columns)

FeaturesDoNotMatchError == UserConfigValidationException(MsgFeaturesDoNotMatch, << >>, {})

NonTargetColumns == FilterSeq(test.columns, ToSet(test.columns) \ {target_column})

\* C7: when no rule is violated, train and test have the same columns, no
\* categorical feature is declared and the metadata names id columns that
\* test has, construction succeeds and the payload's feature_names are
\* test's non-target columns in their order.
C7_ValidConstructionSucceeds ==
    (/\ ConstructionEnded
     /\ ViolatedRules = {}
     /\ ToSet(train.columns) = ToSet(test.columns)
     /\ DeclaredCategoricals = {}
     /\ feature_metadata.kind = "FeatureMetadata"
     /\ ~IdColumnsMissing(test, feature_metadata.time_series_id_column_names))
    => /\ pc = "done"
       /\ raised = NoError
       /\ dataset_feature_names = NonTargetColumns

\* The test set without the target column.
TargetStripped == IF target_column \in ToSet(test.columns) THEN drop(test, target_column) ELSE test

\* C8: after construction predict_output is the model's predict on the
\* target-stripped test set for a forecaster and None otherwise,
\* quantile_predict_output is its predict_quantiles for a quantile
\* forecaster and None otherwise, and construction never ends in the
\* prediction step for want of predict_quantiles.
C8_CachedPredictions ==
    /\ pc = "done" =>
           /\ self.predict_output =
                  IF is_forecaster(model) THEN Predict(model, "predict", TargetStripped) ELSE NoOutput
           /\ self.quantile_predict_output =
                  IF is_quantile_forecaster(model)
                  THEN Predict(model, "predict_quantiles", TargetStripped) ELSE NoOutput
    /\ ~(pc = "predict" /\ raised # NoError /\ ~is_quantile_forecaster(model))

\* The filters the contract gives the cohort of a combination.
ExpectedFilters(id_columns, combination) ==
    [k \in DOMAIN id_columns |->
        CohortFilter("includes", << str(combination[k]) >>, id_columns[k])]

ExpectedName(cohort) ==
    join(<< ",", " " >>,
         [k \in DOMAIN cohort.cohort_filter_list |->
             NameValuePair(cohort.cohort_filter_list[k].column,
                           cohort.cohort_filter_list[k].arg[1])])

\* C10: every cohort's name is the "{column} = {value}" pairs of its id
\* columns, in id-column order, joined by ", ".
C10_CohortNames ==
    pc = "done" =>
        \A i \in DOMAIN self._time_series :
            self._time_series[i].name = ExpectedName(self._time_series[i])

\* C11: a save of a constructed object completes, and a load of the directory
\* completes and yields an object with the target_column, task_type,
\* feature_columns and feature_ranges of the saved one and, a model being
\* present, its predict_output; without a model predict_output is None.
C11_RoundTrip ==
    /\ returned.op = "save" => returned.error = NoError
    /\ returned.op = "load" =>
        /\ returned.error = NoError
        /\ inst.obj.target_column = self.target_column
        /\ inst.obj.task_type = self.task_type
        /\ inst.obj._feature_columns = self._feature_columns
        /\ inst.obj._feature_ranges = self._feature_ranges
        /\ inst.obj.predict_output =
               IF self.model.present THEN self.predict_output ELSE NoOutput

\* The labels the contract gives the payload of the object obj whose fresh
\* predictions are predicted_y.
ExpectedLabels(obj, predicted_y) ==
    IF obj._is_true_y_present
    THEN Labels("target", Column(obj.test, obj.target_column), NoOutput)
    ELSE IF obj.model.present THEN Labels("predicted", << >>, predicted_y)
    ELSE NoLabels

\* C12: in a payload get_data returned, true_y is attached iff labels exist
\* (the target column of test when ground truth is present, the fresh
\* predictions otherwise) and are as many as the feature rows; attached, it
\* holds these labels; without ground truth and model it is not attached.
C12_TrueY ==
    returned.op = "get_data" /\ returned.error = NoError =>
        LET d == returned.dataset
            labels == ExpectedLabels(self, d.predicted_y)
        IN /\ "true_y" \in d.attrs <=>
                  labels # NoLabels /\ LabelsLength(labels) = Len(d.features)
           /\ "true_y" \in d.attrs => d.true_y = labels
           /\ ~self._is_true_y_present /\ ~self.model.present => "true_y" \notin d.attrs

\* get_data returned a payload without true_y, the model having predicted
\* fewer values than test has rows and no ground truth being there.
C12_Witness ==
    /\ returned.op = "get_data" /\ returned.error = NoError
    /\ ~self._is_true_y_present /\ self.model.predict = "short"
    /\ "predicted_y" \in returned.dataset.attrs
    /\ returned.dataset.predicted_y.length # Len(returned.dataset.features)
    /\ "true_y" \notin returned.dataset.attrs

\* The columns rule 8 is about: the train columns that are not numeric, not
\* the target, not the time column and not declared categorical.
UndeclaredStringFeatures ==
    {c \in ToSet(train.columns) :
        /\ c # target_column
        /\ ~IsNumber(train, c)
        /\ c # ResolvedTimeColumn
        /\ c \notin DeclaredCategoricals}

\* C13: validation having ended with rules 1-7 satisfied, it failed with the
\* UserConfigValidationException of rule 8 naming the undeclared string
\* features iff there are such; when there are none, it returned or failed
\* by rule 9 or 10, whatever the type of the time column and whether
\* the metadata or the model names it.
C13_StringFeaturesRule ==
    (ValidationFailed \/ ValidationReturned) /\ ViolatedRules \cap (1..7) = {} =>
        /\ UndeclaredStringFeatures # {} <=>
               /\ ValidationFailed
               /\ IsConfigValidationError(raised)
               /\ raised.msg = MsgStringFeatures
               /\ raised.cols = UndeclaredStringFeatures
        /\ UndeclaredStringFeatures = {} /\ ValidationFailed =>
               RuleOfMessage(raised.msg) \in {9, 10}

\* Whether v is a smallest (sign = 1) or greatest (sign = -1) cell of cells.
IsExtreme(v, cells, sign) ==
    /\ \E i \in DOMAIN cells : cells[i] = v
    /\ \A i \in DOMAIN cells : sign * v.n <= sign * cells[i].n

\* Whether v is the floating-point form of such a cell.
IsFloatOfExtreme(v, cells, sign) ==
    /\ v.t = "float"
    /\ \E i \in DOMAIN cells :
           /\ v = float(cells[i])
           /\ \A j \in DOMAIN cells : sign * cells[i].n <= sign * cells[j].n

\* Whether r is the range the contract gives column col of tst, tag being the
\* tag of a column that is neither categorical nor the time column.
IsRangeOf(r, tst, categorical_features, col, time_column_name, tag) ==
    /\ r.column_name = col
    /\ IF col \in ToSet(categorical_features)
       THEN /\ r.range_type = "categorical"
            /\ ToSet(r.unique_values) = ToSet(Column(tst, col))
            /\ Cardinality(ToSet(r.unique_values)) = Len(r.unique_values)
       ELSE IF col = time_column_name
       THEN /\ r.range_type = "datetime"
            /\ IsExtreme(r.min_value, Column(tst, col), 1)
            /\ IsExtreme(r.max_value, Column(tst, col), -1)
       ELSE /\ r.range_type = tag
            /\ IsFloatOfExtreme(r.min_value, Column(tst, col), 1)
            /\ IsFloatOfExtreme(r.max_value, Column(tst, col), -1)

\* Whether the step of __init__ that called _get_feature_ranges and got a
\* list back assigned one range per feature column, in the columns' order,
\* and left the arguments of the call as they were.
RangesPerColumn(tag) ==
    pc = "derive" /\ pc' = "super" =>
        /\ Len(self'._feature_ranges) = Len(self'._feature_columns)
        /\ \A i \in DOMAIN self'._feature_columns :
               IsRangeOf(self'._feature_ranges[i], test,
                         OrEmpty(self._feature_metadata.categorical_features),
                         self'._feature_columns[i],
                         self._feature_metadata.time_column_name, tag)
        /\ test' = test
        /\ feature_metadata' = feature_metadata
        /\ self'._feature_metadata = self._feature_metadata

DerivedState(obj) ==
    << obj._feature_columns, obj._feature_ranges, obj._categories,
       obj._categorical_indexes, obj.predict_output, obj.quantile_predict_output,
       obj._time_series >>

\* C15: a call of get_data or get_filtered_test_data on a constructed object
\* leaves _feature_columns, _feature_ranges, the categorical encodings,
\* predict_output, quantile_predict_output and the cohorts as they were, and
\* a get_data that returns a payload with a model present has called the
\* model again.
C15_DerivedStateKept ==
    [][pc = "done" /\ returned'.op \in {"get_data", "get_filtered_test_data"} =>
          /\ DerivedState(self') = DerivedState(self)
          /\ returned'.op = "get_data" /\ returned'.error = NoError /\ self.model.present =>
                 /\ PredictCalls(calls') = PredictCalls(calls) + 1
                 /\ returned'.dataset.predicted_y = calls'[Len(calls) + 1]]_vars

\* get_data returned a payload whose fresh predictions are not the cached
\* ones, which are the ones the model returned during construction.
C15_Witness ==
    /\ returned.op = "get_data" /\ returned.error = NoError
    /\ self.model.present
    /\ PredictCalls(calls) >= 4
    /\ self.predict_output = calls[2]
    /\ returned.dataset.predicted_y # self.predict_output

\* Whether the payload d is within the limits of the dashboard.
PayloadBounded(d) ==
    /\ Len(d.features) <= 100000
    /\ \A i \in DOMAIN d.features :
           /\ Len(d.features[i]) <= 1000
           /\ Len(d.feature_names) = Len(d.features[i])

\* C16: a get_data on a feature table of more than 100,000 rows or more than
\* 1,000 columns, or whose columns after the prediction are not as many as
\* before it, fails with ValueError; a payload get_data returns has at most
\* 100,000 feature rows of at most 1,000 features each, and as many
\* feature_names as features in every row.
C16_PayloadSizeBounded ==
    [][pc = "done" /\ returned'.op = "get_data" =>
          LET table == self._test_without_true_y
          IN /\ \/ len(table) > 100000
                \/ Len(table.columns) > 1000
                \/ Len(self'._test_without_true_y.columns) # Len(table.columns)
                => returned'.error.exc = "ValueError"
             /\ returned'.error = NoError => PayloadBounded(returned'.dataset)]_vars

\* get_data refused a feature table of more than 1,000 columns.
C16_Witness ==
    /\ returned.op = "get_data"
    /\ returned.error = ValueError(MsgTooManyFeatures)
    /\ Len(self._test_without_true_y.columns) > 1000

====
